---- MODULE Spec2Model ----
(***************************************************************************)
(* Cast operators of expression/core/typing.py: upcast, downcast and       *)
(* try_downcast, called from one or several threads of one interpreter.    *)
(* Objects live in a heap and are passed by reference; type arguments are  *)
(* the objects Python accepts in that position (classes, subscripted       *)
(* generics, protocol classes, special forms, None).                       *)
(***************************************************************************)
EXTENDS Integers, Sequences, FiniteSets

VARIABLES debug, heap, pc, frame, result

vars == <<debug, heap, pc, frame, result>>

\* Number of threads that may be inside a cast operator at the same time.
NumThreads == 2

Threads == 1..NumThreads

\* The thread used by the sequential specification.
MainThread == CHOOSE t \in Threads : \A u \in Threads : t <= u

(***************************************************************************)
(* Objects.  A reference is the object's identity; heap[ref] is its        *)
(* runtime class, its content and the text str() gives for it.             *)
(***************************************************************************)
NoneRef == "None"

Refs == {"circle", "five", "strs", "ints", NoneRef}

InitHeap ==
    [r \in Refs |->
        CASE r = "circle" -> [cls |-> "Circle", content |-> <<5>>, str |-> "Circle(radius=5)"]
          [] r = "five"   -> [cls |-> "int", content |-> <<5>>, str |-> "5"]
          [] r = "strs"   -> [cls |-> "list", content |-> <<"a", "b">>, str |-> "['a', 'b']"]
          [] r = "ints"   -> [cls |-> "list", content |-> <<1, 2>>, str |-> "[1, 2]"]
          [] OTHER        -> [cls |-> "NoneType", content |-> <<>>, str |-> "None"]]

\* The classes each runtime class is a (real or registered) subclass of.
Mro(cls) ==
    CASE cls = "Circle"   -> {"Circle", "Shape", "object"}
      [] cls = "Square"   -> {"Square", "Shape", "object"}
      [] cls = "Shape"    -> {"Shape", "object"}
      [] cls = "int"      -> {"int", "object"}
      [] cls = "list"     -> {"list", "Sequence", "object"}
      [] cls = "NoneType" -> {"NoneType", "object"}
      [] OTHER            -> {cls, "object"}

(***************************************************************************)
(* Type arguments.  kind is what the object is to isinstance and           *)
(* get_origin: an ordinary class, a subscripted generic alias, a Protocol  *)
(* class without runtime_checkable, a special form, or None.               *)
(***************************************************************************)
Class(n) == [kind |-> "class", name |-> n, arg |-> "", str |-> n]

Generic(n, a) ==
    [kind |-> "generic", name |-> n, arg |-> a,
     str |-> IF a = "int" THEN "Sequence[int]" ELSE "Sequence[str]"]

SupportsLessThan ==
    [kind |-> "protocol", name |-> "SupportsLessThan", arg |-> "", str |-> "SupportsLessThan"]

Any == [kind |-> "special", name |-> "Any", arg |-> "", str |-> "typing.Any"]

None == [kind |-> "none", name |-> "None", arg |-> "", str |-> "None"]

PlainClasses == {Class(n) : n \in {"object", "Shape", "Circle", "Square", "int", "Sequence"}}

GenericAliases == {Generic("Sequence", a) : a \in {"int", "str"}}

TypeArgs == PlainClasses \cup GenericAliases \cup {SupportsLessThan, Any, None}

\* Inputs of the concurrent specification.
ConcTypeArgs == {Class("Circle"), Generic("Sequence", "int"), SupportsLessThan}

ConcRefs == {"circle", "strs"}

Ops == {"upcast", "downcast", "try_downcast"}

(***************************************************************************)
(* Outcomes of a call.                                                     *)
(***************************************************************************)
Return(ref) == [kind |-> "return", ref |-> ref, exc |-> "", msg |-> <<>>]

Raise(exc, msg) == [kind |-> "raise", ref |-> "", exc |-> exc, msg |-> msg]

NoResult == [kind |-> "none", ref |-> "", exc |-> "", msg |-> <<>>]

NoFrame == [op |-> "", type |-> None, expr |-> NoneRef, origin |-> None]

(***************************************************************************)
(* The library functions the operators call.                               *)
(***************************************************************************)
\* typing.get_origin: the unsubscripted origin of a generic alias, else None.
get_origin(tp) ==
    IF tp.kind = "generic" THEN Class(tp.name) ELSE None

\* Python truthiness of a type argument: only None is false.
Truthy(tp) == tp.kind # "none"

\* a or b
Or(a, b) == IF Truthy(a) THEN a ELSE b

\* isinstance(obj, tp): "True", "False", or "TypeError" when tp cannot be
\* used in an instance check.
isinstance(obj, tp) ==
    IF tp.kind = "class"
    THEN IF tp.name \in Mro(heap[obj].cls) THEN "True" ELSE "False"
    ELSE "TypeError"

isinstanceMessage(tp) ==
    CASE tp.kind = "generic"  -> <<"Subscripted generics cannot be used with class and instance checks">>
      [] tp.kind = "protocol" -> <<"Instance and class checks can only be used with @runtime_checkable protocols">>
      [] tp.kind = "special"  -> <<tp.str, " cannot be used with isinstance()">>
      [] OTHER                -> <<"isinstance() arg 2 must be a type, a tuple of types, or a union">>

\* typing.cast: returns its argument.
cast(tp, obj) == obj

(***************************************************************************)
(* upcast, line 87                                                         *)
(***************************************************************************)
\* Variant: the return statement of line 92 is missing.
upcast_noreturn(type, expr) == Return(NoneRef)

\* Variant: upcast with an instance check.
upcast_checked(type, expr) ==
    IF isinstance(expr, type) = "True"
    THEN Return(expr)
    ELSE Raise("TypeError", <<"not a base of ", heap[expr].str>>)

upcast(type, expr) == Return(expr)

(***************************************************************************)
(* downcast, line 95.  The check is an assert statement, which the         *)
(* interpreter executes only when __debug__ is true (no -O).               *)
(***************************************************************************)
\* Variant: the message leaves out the type.
AssertMessage_notype(expr, type) ==
    <<"The type of expression ", heap[expr].str, " is not a supertype">>

AssertMessage(expr, type) ==
    <<"The type of expression ", heap[expr].str, " is not a supertype of ", type.str>>

downcast(type, expr) ==
    IF debug /\ isinstance(expr, type) = "TypeError"
    THEN Raise("TypeError", isinstanceMessage(type))
    ELSE IF debug /\ isinstance(expr, type) = "False"
    THEN Raise("AssertionError", AssertMessage(expr, type))
    ELSE Return(cast(type, expr))

(***************************************************************************)
(* try_downcast, line 110, in two steps: line 120 binds the local origin,  *)
(* lines 121-125 test it and return.                                       *)
(***************************************************************************)
\* Variant: the type argument is used as it is, without get_origin.
try_downcast_origin_noerase(type_) == type_

try_downcast_origin(type_) == Or(get_origin(type_), type_)

try_downcast_check(origin, expr) ==
    IF origin = None
    THEN Return(NoneRef)
    ELSE IF isinstance(expr, origin) = "TypeError"
    THEN Raise("TypeError", isinstanceMessage(origin))
    ELSE IF isinstance(expr, origin) = "True"
    THEN Return(cast(origin, expr))
    ELSE Return(NoneRef)

\* Variant: origin kept in one place shared with the next thread.
LoadOrigin_shared(t) == frame[IF t = NumThreads THEN 1 ELSE t + 1].origin

\* The local variable origin as read at line 121.
LoadOrigin(t) == frame[t].origin

(***************************************************************************)
(* State machine                                                           *)
(***************************************************************************)
Init ==
    /\ debug \in BOOLEAN
    /\ heap = InitHeap
    /\ pc = [t \in Threads |-> "idle"]
    /\ frame = [t \in Threads |-> NoFrame]
    /\ result = [t \in Threads |-> NoResult]

EntryLabel(op) == IF op = "try_downcast" THEN "try_downcast_120" ELSE op

\* A thread calls one of the operators with a type argument and a value.
Call(t, types, refs) ==
    /\ pc[t] = "idle"
    /\ \E op \in Ops, tp \in types, e \in refs :
        /\ frame' = [frame EXCEPT ![t] = [op |-> op, type |-> tp, expr |-> e, origin |-> None]]
        /\ pc' = [pc EXCEPT ![t] = EntryLabel(op)]
    /\ UNCHANGED <<debug, heap, result>>

Upcast(t) ==
    /\ pc[t] = "upcast"
    /\ result' = [result EXCEPT ![t] = upcast(frame[t].type, frame[t].expr)]
    /\ pc' = [pc EXCEPT ![t] = "done"]
    /\ UNCHANGED <<debug, heap, frame>>

Downcast(t) ==
    /\ pc[t] = "downcast"
    /\ result' = [result EXCEPT ![t] = downcast(frame[t].type, frame[t].expr)]
    /\ pc' = [pc EXCEPT ![t] = "done"]
    /\ UNCHANGED <<debug, heap, frame>>

TryDowncastOrigin(t) ==
    /\ pc[t] = "try_downcast_120"
    /\ frame' = [frame EXCEPT ![t].origin = try_downcast_origin(frame[t].type)]
    /\ pc' = [pc EXCEPT ![t] = "try_downcast_121"]
    /\ UNCHANGED <<debug, heap, result>>

TryDowncastCheck(t) ==
    /\ pc[t] = "try_downcast_121"
    /\ result' = [result EXCEPT ![t] = try_downcast_check(LoadOrigin(t), frame[t].expr)]
    /\ pc' = [pc EXCEPT ![t] = "done"]
    /\ UNCHANGED <<debug, heap, frame>>

\* The caller has taken the outcome; the frame is gone.
Finish(t) ==
    /\ pc[t] = "done"
    /\ pc' = [pc EXCEPT ![t] = "idle"]
    /\ frame' = [frame EXCEPT ![t] = NoFrame]
    /\ result' = [result EXCEPT ![t] = NoResult]
    /\ UNCHANGED <<debug, heap>>

\* One caller, every type argument and value.
Next ==
    \/ Call(MainThread, TypeArgs, Refs)
    \/ Upcast(MainThread)
    \/ Downcast(MainThread)
    \/ TryDowncastOrigin(MainThread)
    \/ TryDowncastCheck(MainThread)
    \/ Finish(MainThread)

Spec == Init /\ [][Next]_vars

\* Several callers interleaved.
NextConc ==
    \/ \E t \in Threads : Call(t, ConcTypeArgs, ConcRefs)
    \/ \E t \in Threads : Upcast(t)
    \/ \E t \in Threads : Downcast(t)
    \/ \E t \in Threads : TryDowncastOrigin(t)
    \/ \E t \in Threads : TryDowncastCheck(t)
    \/ \E t \in Threads : Finish(t)

SpecConc == Init /\ [][NextConc]_vars

(***************************************************************************)
(* Properties                                                              *)
(***************************************************************************)
Done(t, op) == pc[t] = "done" /\ frame[t].op = op

Present(r) == r.kind = "return" /\ r.ref # NoneRef

Absent(r) == r.kind = "return" /\ r.ref = NoneRef

Mentions(msg, s) == \E i \in 1..Len(msg) : msg[i] = s

\* The runtime type of v is T, or a subtype of T with its parameters erased.
RuntimeTypeWithin(v, T) ==
    /\ T.kind \in {"class", "generic", "protocol"}
    /\ T.name \in Mro(InitHeap[v].cls)

IsSequence(v) == "Sequence" \in Mro(InitHeap[v].cls)

\* C1: try_downcast(T, v) returns a present result exactly when the runtime
\* type of v is T or a subtype of T's generic origin, and returns absent in
\* every other case.
C1_PresentIffSubtype ==
    \A t \in Threads :
        Done(t, "try_downcast") =>
            /\ Present(result[t]) <=> RuntimeTypeWithin(frame[t].expr, frame[t].type)
            /\ ~RuntimeTypeWithin(frame[t].expr, frame[t].type) => Absent(result[t])

\* C2: try_downcast never raises: whatever the type argument and the value,
\* the call ends by returning the value or None.
C2_TryDowncastNeverRaises ==
    \A t \in Threads :
        Done(t, "try_downcast") => result[t].kind = "return"

\* C3: downcast(T, v) returns, and then returns v itself, only if v is an
\* instance of T; when v is not an instance of T the call raises and returns
\* nothing.
C3_DowncastChecked ==
    \A t \in Threads :
        Done(t, "downcast") =>
            /\ result[t].kind = "return" =>
                /\ result[t].ref = frame[t].expr
                /\ RuntimeTypeWithin(frame[t].expr, frame[t].type)
            /\ ~RuntimeTypeWithin(frame[t].expr, frame[t].type) => result[t].kind = "raise"

\* C4: for a value v of runtime type D and a target B that is D or an
\* ancestor of D, upcast(B, v) returns v itself, its content untouched, and
\* does not raise.
C4_UpcastToAncestor ==
    \A t \in Threads :
        (/\ Done(t, "upcast")
         /\ frame[t].type.kind = "class"
         /\ frame[t].type.name \in Mro(InitHeap[frame[t].expr].cls))
        => /\ result[t] = Return(frame[t].expr)
           /\ heap[frame[t].expr] = InitHeap[frame[t].expr]

C4_Witness ==
    /\ Done(MainThread, "upcast")
    /\ frame[MainThread].type = Class("Shape")
    /\ frame[MainThread].expr = "circle"
    /\ result[MainThread] = Return("circle")

\* C5: generic erasure: try_downcast(Sequence[X], v) returns v for every
\* sequence v whatever its element type, and returns None when v is the
\* integer 5, for every parameter X.
C5_GenericErasure ==
    \A t \in Threads :
        (Done(t, "try_downcast") /\ frame[t].type \in GenericAliases) =>
            /\ IsSequence(frame[t].expr) => result[t] = Return(frame[t].expr)
            /\ frame[t].expr = "five" => result[t] = Return(NoneRef)

C5_Witness ==
    /\ Done(MainThread, "try_downcast")
    /\ frame[MainThread].type = Generic("Sequence", "int")
    /\ frame[MainThread].expr = "strs"
    /\ result[MainThread] = Return("strs")

\* C6: downcast and try_downcast never fabricate a value: whatever downcast
\* returns, and whatever present result try_downcast returns, is the argument
\* v itself, returned only when v passes the instance check, and the heap is
\* left as it was.
C6_NeverFabricate ==
    \A t \in Threads :
        (\/ Done(t, "downcast") /\ result[t].kind = "return"
         \/ Done(t, "try_downcast") /\ Present(result[t]))
        => /\ result[t].ref = frame[t].expr
           /\ RuntimeTypeWithin(frame[t].expr, frame[t].type)
           /\ heap = InitHeap

\* C7: when downcast(T, v) fails because v is not an instance of T, the
\* error is an AssertionError whose message names both v and T.
C7_DescriptiveError ==
    \A t \in Threads :
        (/\ Done(t, "downcast")
         /\ result[t].kind = "raise"
         /\ isinstance(frame[t].expr, frame[t].type) = "False")
        => /\ result[t].exc = "AssertionError"
           /\ Mentions(result[t].msg, InitHeap[frame[t].expr].str)
           /\ Mentions(result[t].msg, frame[t].type.str)

C7_Witness ==
    /\ Done(MainThread, "downcast")
    /\ frame[MainThread].type = Class("Square")
    /\ frame[MainThread].expr = "circle"
    /\ result[MainThread].exc = "AssertionError"
    /\ Mentions(result[MainThread].msg, "Square")

\* What a call gives when it runs with no other call in progress.
RunAlone(op, type, expr) ==
    CASE op = "upcast"   -> upcast(type, expr)
      [] op = "downcast" -> downcast(type, expr)
      [] OTHER           -> try_downcast_check(Or(get_origin(type), type), expr)

\* C8: under any interleaving of calls from several threads, the outcome of
\* each call depends on its own two arguments only and is the outcome of the
\* same call run alone; nothing but the calls' own frames changes.
C8_NoSharedState ==
    /\ heap = InitHeap
    /\ \A t \in Threads :
        pc[t] = "done" =>
            result[t] = RunAlone(frame[t].op, frame[t].type, frame[t].expr)

C8_Witness ==
    /\ pc[1] = "done" /\ frame[1].op = "try_downcast"
    /\ frame[1].type = Class("Circle") /\ frame[1].expr = "circle"
    /\ result[1] = Return("circle")
    /\ pc[2] = "try_downcast_121"
    /\ frame[2].type = Generic("Sequence", "int")

\* C9: upcast makes no runtime check: for every type argument B and every
\* value v, also one whose runtime type is unrelated to B, upcast(B, v)
\* returns v and raises nothing.
C9_UpcastUnchecked ==
    \A t \in Threads :
        Done(t, "upcast") => result[t] = Return(frame[t].expr)

C9_Witness ==
    /\ Done(MainThread, "upcast")
    /\ frame[MainThread].type = Class("Square")
    /\ frame[MainThread].expr = "five"
    /\ result[MainThread] = Return("five")

\* C10: on a plain, unparameterized class T, try_downcast(T, v) returns a
\* present result exactly when downcast(T, v) succeeds, both then returning
\* v, and returns absent exactly when downcast(T, v) fails.
C10_AgreeOnPlainClasses ==
    \A t \in Threads :
        (Done(t, "try_downcast") /\ frame[t].type.kind \in {"class", "protocol"}) =>
            LET d == downcast(frame[t].type, frame[t].expr) IN
            /\ Present(result[t]) <=> d.kind = "return"
            /\ Present(result[t]) => (result[t].ref = frame[t].expr /\ d.ref = frame[t].expr)
            /\ Absent(result[t]) <=> d.kind = "raise"

====
